---- MODULE Spec2Model ----
(***************************************************************************)
(* Model of the learning-rate Controller and the training Reporter of      *)
(* neural_sp/bin/train_utils.py and of the aggregation loop of do_eval_cer *)
(* in examples/csj/s5/exp/metrics/cer.py.                                  *)
(*                                                                         *)
(* Numbers.  Python floats are modelled by exact values: a value is the    *)
(* record [n, d, rad] standing for (n / d) / sqrt(rad), with d > 0,        *)
(* gcd(n, d) = 1 and rad square-free, so that equal values have equal      *)
(* records.  Rationals are the values with rad = 1.  Rounding, overflow    *)
(* and underflow of IEEE doubles are not modelled.                         *)
(***************************************************************************)
EXTENDS Integers, Sequences, FiniteSets, TLC

\* ------------------------------------------------------------------------
\* Bounds of the model
\* ------------------------------------------------------------------------
MaxEpoch == 2
MaxValue == 3
MaxDecays == 2
MaxStep == 2

\* ------------------------------------------------------------------------
\* Exact arithmetic
\* ------------------------------------------------------------------------
Abs(x) == IF x < 0 THEN -x ELSE x

Max2(a, b) == IF a >= b THEN a ELSE b

RECURSIVE Gcd(_, _)
Gcd(a, b) == IF b = 0 THEN a ELSE Gcd(b, a % b)

\* the largest k with k*k dividing m (m > 0)
SquarePart(m) == CHOOSE k \in 1..m : /\ m % (k * k) = 0
                                     /\ \A j \in (k + 1)..m : m % (j * j) # 0

\* (n / d) / sqrt(rad) in normal form; d > 0, rad > 0
Val(n, d, rad) ==
    LET k == SquarePart(rad)
        dd == d * k
        g == Gcd(Abs(n), dd)
    IN  IF n = 0 THEN [n |-> 0, d |-> 1, rad |-> 1]
        ELSE [n |-> n \div g, d |-> dd \div g, rad |-> rad \div (k * k)]

Rat(n, d) == Val(n, d, 1)

Mul(a, b) == Val(a.n * b.n, a.d * b.d, a.rad * b.rad)

\* a / k for an integer k > 0
DivInt(a, k) == Val(a.n, a.d * k, a.rad)

\* sum and difference of two values with the same radicand
Plus(a, b) == Val(a.n * b.d + b.n * a.d, a.d * b.d, a.rad)

Minus(a, b) == Val(a.n * b.d - b.n * a.d, a.d * b.d, a.rad)

Positive(a) == a.n > 0

\* a <= b for two values that are >= 0
LeqNonNeg(a, b) == a.n * a.n * b.d * b.d * b.rad <= b.n * b.n * a.d * a.d * a.rad

RECURSIVE Pow(_, _)
Pow(a, k) == IF k = 0 THEN Rat(1, 1) ELSE Mul(a, Pow(a, k - 1))

\* np.power(x, -0.5) of an integer x >= 0; 0 ** -0.5 is inf
Inf == [n |-> 1, d |-> 0, rad |-> 1]

NpPowNegHalf(x) == IF x = 0 THEN Inf ELSE Val(1, 1, x)

\* np.power(x, -1.5) of an integer x > 0
NpPowNegThreeHalves(x) == Val(1, x, x)

\* np.min of two values that are >= 0 or inf
NpMin(a, b) == IF a = Inf THEN b
               ELSE IF b = Inf THEN a
               ELSE IF LeqNonNeg(a, b) THEN a ELSE b

\* ------------------------------------------------------------------------
\* State
\* ------------------------------------------------------------------------
VARIABLES
    ctl,        \* the Controller object
    optimizer,  \* the externally owned optimizer: kind and param_groups
    lr,         \* the learning rate held by the training loop
    call,       \* the last Controller call: arguments, result and pre-state
    obs,        \* observer of the call sequence (history, no program state)
    reporter,   \* the Reporter object
    since,      \* observer: per metric, the values given to add(.., False)
                \* since the last step(True), and the series they should give
    ev,         \* one run of do_eval_cer: position, dataset and totals
    ucall       \* the last utterance scored: its exceptions and the totals before

ctlVars == <<ctl, optimizer, lr, call, obs>>

repVars == <<reporter, since>>

cerVars == <<ev, ucall>>

vars == <<ctl, optimizer, lr, call, obs, reporter, since, ev, ucall>>

\* ------------------------------------------------------------------------
\* Controller (train_utils.py)
\* ------------------------------------------------------------------------
NumGroups == 2

\* Controller.__init__
Controller(learning_rate, decay_type, decay_start_epoch, decay_rate, decay_patient_epoch, lower_better, best_value, model_size, warmup_start_learning_rate, warmup_nsteps, factor) ==
    [lr_max |-> learning_rate,
     decay_type |-> decay_type,
     decay_start_epoch |-> decay_start_epoch,
     decay_rate |-> decay_rate,
     decay_patient_epoch |-> decay_patient_epoch,
     not_improved_epoch |-> 0,
     lower_better |-> lower_better,
     best_value |-> best_value,
     lr_init |-> IF warmup_nsteps > 0
                 THEN IF Positive(warmup_start_learning_rate)
                      THEN warmup_start_learning_rate
                      ELSE Mul(factor, NpPowNegHalf(model_size))
                 ELSE learning_rate,
     warmup_start_lr |-> warmup_start_learning_rate,
     warmup_nsteps |-> warmup_nsteps]

\* the optimizer the training loop hands to the Controller: every group has
\* a rate field 'lr' and an epsilon field 'eps'
Optimizer(kind, learning_rate) ==
    [kind |-> kind,
     param_groups |-> [i \in 1..NumGroups |->
                          IF kind = "Adadelta"
                          THEN [lr |-> Rat(1, 1), eps |-> learning_rate]
                          ELSE [lr |-> learning_rate, eps |-> Rat(1, 1000)]]]

\* "if not self.lower_better: value *= -1"
SignAdjust(c, value) == IF ~c.lower_better THEN -value ELSE value

\* fault: the start epoch itself is taken for an epoch before the start
BeforeStart_Inclusive(c, epoch) == epoch <= c.decay_start_epoch

\* "if epoch < self.decay_start_epoch" is the branch before the start
BeforeStart(c, epoch) == epoch < c.decay_start_epoch

\* fault: the comparison with the best value is turned around
Improves_Flipped(c, v) == v > c.best_value

\* "if value < self.best_value"
Improves(c, v) == v < c.best_value

\* fault: one more epoch of patience
StillPatient_Inclusive(c) == c.not_improved_epoch <= c.decay_patient_epoch

\* "elif self.not_improved_epoch < self.decay_patient_epoch"
StillPatient(c) == c.not_improved_epoch < c.decay_patient_epoch

\* fault: tracking the best value before the start also resets the counter
TrackBest_Reset(c, v) == [c EXCEPT !.best_value = v, !.not_improved_epoch = 0]

\* before the start epoch: "self.best_value = value", nothing else
TrackBest(c, v) == [c EXCEPT !.best_value = v]

\* fault: an improvement does not reset the counter
MarkImproved_NoReset(c, v) == [c EXCEPT !.best_value = v]

\* at or after the start epoch, improved:
\* "self.best_value = value; self.not_improved_epoch = 0"
MarkImproved(c, v) == [c EXCEPT !.best_value = v, !.not_improved_epoch = 0]

\* the "Update optimizer" loop of decay_lr
DecayUpdateOptimizer(o, newlr) ==
    [o EXCEPT !.param_groups =
        [i \in DOMAIN o.param_groups |->
            IF o.kind = "Adadelta"
            THEN [o.param_groups[i] EXCEPT !.eps = newlr]
            ELSE [o.param_groups[i] EXCEPT !.lr = newlr]]]

\* the "Update optimizer" loop of warmup_lr
WarmupUpdateOptimizer(o, newlr) ==
    [o EXCEPT !.param_groups =
        [i \in DOMAIN o.param_groups |-> [o.param_groups[i] EXCEPT !.lr = newlr]]]

\* Controller.decay_lr: the Controller, the optimizer and the rate after the
\* call; decayed tells whether the call took a branch with "lr *= decay_rate"
decay_lr(c, o, rate, epoch, value) ==
    LET v == SignAdjust(c, value)
        same == [c |-> c, o |-> o, lr |-> rate, decayed |-> FALSE]
    IN  IF BeforeStart(c, epoch)
        THEN IF c.decay_type = "metric" /\ Improves(c, v)
             THEN [same EXCEPT !.c = TrackBest(c, v)]
             ELSE same
        ELSE IF c.decay_type = "metric"
             THEN IF Improves(c, v)
                  THEN [same EXCEPT !.c = MarkImproved(c, v)]
                  ELSE IF StillPatient(c)
                  THEN [same EXCEPT !.c.not_improved_epoch = c.not_improved_epoch + 1]
                  ELSE LET newlr == Mul(rate, c.decay_rate)
                       IN  [c |-> [c EXCEPT !.not_improved_epoch = 0],
                            o |-> DecayUpdateOptimizer(o, newlr),
                            lr |-> newlr, decayed |-> TRUE]
             ELSE IF c.decay_type = "epoch"
             THEN LET newlr == Mul(rate, c.decay_rate)
                  IN  [c |-> c, o |-> DecayUpdateOptimizer(o, newlr),
                       lr |-> newlr, decayed |-> TRUE]
             ELSE same

\* the rate computed by Controller.warmup_lr
WarmupRate(c, step) ==
    IF Positive(c.warmup_start_lr)
    THEN Plus(Mul(DivInt(Minus(c.lr_max, c.warmup_start_lr), c.warmup_nsteps),
                  Rat(step, 1)),
              c.lr_init)
    ELSE Mul(c.lr_init,
             NpMin(NpPowNegHalf(step),
                   Mul(Rat(step, 1), NpPowNegThreeHalves(c.warmup_nsteps))))

\* Controller.warmup_lr
warmup_lr(c, o, rate, step) ==
    LET newlr == WarmupRate(c, step)
    IN  [c |-> c, o |-> WarmupUpdateOptimizer(o, newlr), lr |-> newlr]

\* ------------------------------------------------------------------------
\* Reporter (train_utils.py)
\* ------------------------------------------------------------------------
\* A dict is a function whose domain is its key set.
EmptyDict == [x \in {} |-> <<>>]

Categories == {"loss", "acc", "ppl"}

\* the value of an observation item: None, or a number x as <<x>>
None == <<>>

RECURSIVE SumSeq(_)
SumSeq(q) == IF q = <<>> THEN 0 ELSE Head(q) + SumSeq(Tail(q))

\* np.mean of a non-empty list of numbers
NpMean(q) == Rat(SumSeq(q), Len(q))

\* "if name not in d.keys(): d[name] = []"
SetDefault(d, name) ==
    IF name \in DOMAIN d THEN d
    ELSE [x \in DOMAIN d \cup {name} |-> IF x = name THEN <<>> ELSE d[x]]

\* d[name].append(v), key present
AppendTo(d, name, v) == [d EXCEPT ![name] = Append(d[name], v)]

\* Reporter.__init__
Reporter ==
    [step |-> 0,
     obs_train |-> [c \in Categories |-> EmptyDict],
     obs_train_local |-> [c \in Categories |-> EmptyDict],
     obs_dev |-> [c \in Categories |-> EmptyDict],
     steps |-> <<>>,
     raised |-> "none"]

\* the body of the loop of Reporter.add for one item (category.name, v);
\* raised names the exception that left the loop
AddItem(r, category, name, v, is_eval) ==
    IF v = None THEN r
    ELSE IF ~is_eval
    THEN [r EXCEPT !.obs_train_local[category] =
             AppendTo(SetDefault(r.obs_train_local[category], name), name, v[1])]
    ELSE LET train == SetDefault(r.obs_train[category], name)
         IN  IF name \notin DOMAIN r.obs_train_local[category]
             THEN [r EXCEPT !.obs_train[category] = train, !.raised = "KeyError"]
             ELSE [r EXCEPT
                     !.obs_train[category] =
                         AppendTo(train, name, NpMean(r.obs_train_local[category][name])),
                     !.obs_dev[category] =
                         AppendTo(SetDefault(r.obs_dev[category], name), name, v[1])]

\* Reporter.add: the items of the observation in dict order
RECURSIVE ReporterAdd(_, _, _)
ReporterAdd(r, observation, is_eval) ==
    IF observation = <<>> \/ r.raised # "none" THEN r
    ELSE LET it == Head(observation)
         IN  ReporterAdd(AddItem(r, it.category, it.name, it.v, is_eval),
                         Tail(observation), is_eval)

\* fault: an evaluation step does not clear the local buffer
ReporterStep_NoReset(r, is_eval) ==
    IF is_eval
    THEN [r EXCEPT !.step = r.step + 1, !.steps = Append(r.steps, r.step + 1)]
    ELSE [r EXCEPT !.step = r.step + 1]

\* Reporter.step
ReporterStep(r, is_eval) ==
    IF is_eval
    THEN [r EXCEPT !.step = r.step + 1,
                   !.steps = Append(r.steps, r.step + 1),
                   !.obs_train_local = [c \in Categories |-> EmptyDict]]
    ELSE [r EXCEPT !.step = r.step + 1]

\* ------------------------------------------------------------------------
\* do_eval_cer (cer.py)
\* ------------------------------------------------------------------------
\* A string is a sequence of one-character strings.

\* str.split('>')[0]: the part before the first '>'
RECURSIVE TruncateAtEos(_)
TruncateAtEos(str) ==
    IF str = <<>> \/ Head(str) = ">" THEN <<>>
    ELSE <<Head(str)>> \o TruncateAtEos(Tail(str))

\* re.sub(r'[@>]+', '', str)
RECURSIVE RemoveGarbage(_)
RemoveGarbage(str) ==
    IF str = <<>> THEN <<>>
    ELSE IF Head(str) \in {"@", ">"} THEN RemoveGarbage(Tail(str))
    ELSE <<Head(str)>> \o RemoveGarbage(Tail(str))

\* re.sub(r'[_]+', '_', str)
RECURSIVE CollapseSpaces(_)
CollapseSpaces(str) ==
    IF Len(str) < 2 THEN str
    ELSE IF Head(str) = "_" /\ str[2] = "_" THEN CollapseSpaces(Tail(str))
    ELSE <<Head(str)>> \o CollapseSpaces(Tail(str))

\* str.split('_'): the list of words, empty words included ("".split gives [""])
RECURSIVE SplitWords(_)
SplitWords(str) ==
    IF str = <<>> THEN << <<>> >>
    ELSE LET rest == SplitWords(Tail(str))
         IN  IF Head(str) = "_" THEN << <<>> >> \o rest
             ELSE << <<Head(str)>> \o Head(rest) >> \o Tail(rest)

\* list(str.replace('_', ''))
RECURSIVE RemoveSpaces(_)
RemoveSpaces(str) ==
    IF str = <<>> THEN <<>>
    ELSE IF Head(str) = "_" THEN RemoveSpaces(Tail(str))
    ELSE <<Head(str)>> \o RemoveSpaces(Tail(str))

\* the substitution, insertion and deletion counts of every alignment of
\* hyp with ref
RECURSIVE Alignments(_, _)
Alignments(ref, hyp) ==
    IF ref = <<>> THEN {[sub |-> 0, ins |-> Len(hyp), del |-> 0]}
    ELSE IF hyp = <<>> THEN {[sub |-> 0, ins |-> 0, del |-> Len(ref)]}
    ELSE {[a EXCEPT !.sub = @ + (IF Head(ref) = Head(hyp) THEN 0 ELSE 1)] :
             a \in Alignments(Tail(ref), Tail(hyp))}
         \cup {[a EXCEPT !.del = @ + 1] : a \in Alignments(Tail(ref), hyp)}
         \cup {[a EXCEPT !.ins = @ + 1] : a \in Alignments(ref, Tail(hyp))}

EditCount(a) == a.sub + a.ins + a.del

\* compute_wer(ref, hyp, normalize=False): the results a Levenshtein
\* alignment with backtracking can return, one per cheapest alignment
compute_wer(ref, hyp) ==
    {[wer |-> EditCount(a), sub |-> a.sub, ins |-> a.ins, del |-> a.del] :
        a \in {b \in Alignments(ref, hyp) :
                  \A c \in Alignments(ref, hyp) : EditCount(b) <= EditCount(c)}}

\* task_index as the decoding branch sets it
TaskIndex(model_type) == IF model_type \in {"ctc", "attention"} THEN 0 ELSE 1

\* "dataset.label_type == 'kanji_wb' or (task_index > 0 and
\*  dataset.label_type_sub == 'kanji_wb')"
WordLevel(e) ==
    \/ e.label_type = "kanji_wb"
    \/ (TaskIndex(e.model_type) > 0 /\ e.label_type_sub = "kanji_wb")

\* the totals at the start of a pass
StartEval(model_type, label_type, label_type_sub) ==
    [pc |-> "loop", model_type |-> model_type,
     label_type |-> label_type, label_type_sub |-> label_type_sub,
     n |-> 0,
     cer |-> 0, wer |-> 0,
     sub_char |-> 0, ins_char |-> 0, del_char |-> 0,
     sub_word |-> 0, ins_word |-> 0, del_word |-> 0,
     num_words |-> 0, num_chars |-> 0,
     result |-> <<>>]

\* reference and hypothesis as they reach the scoring
PrepareRef(str_ref) == CollapseSpaces(RemoveGarbage(str_ref))

PrepareHyp(e, str_hyp) ==
    CollapseSpaces(RemoveGarbage(IF e.model_type \in {"attention", "hierarchical_attention"}
                                 THEN TruncateAtEos(str_hyp) ELSE str_hyp))

\* the "Compute WER" try block; raises: compute_wer raised, res: its result
ScoreWords(e, str_ref, str_hyp, raises, res) ==
    IF raises THEN e
    ELSE [e EXCEPT !.wer = @ + res.wer,
                   !.sub_word = @ + res.sub,
                   !.ins_word = @ + res.ins,
                   !.del_word = @ + res.del,
                   !.num_words = @ + Len(SplitWords(str_ref))]

\* fault: the reference length is added before the scoring can raise
ScoreChars_CountFirst(e, str_ref, str_hyp, raises, res) ==
    IF raises THEN [e EXCEPT !.num_chars = @ + Len(RemoveSpaces(str_ref))]
    ELSE [e EXCEPT !.cer = @ + res.wer,
                   !.sub_char = @ + res.sub,
                   !.ins_char = @ + res.ins,
                   !.del_char = @ + res.del,
                   !.num_chars = @ + Len(RemoveSpaces(str_ref))]

\* the "Compute CER" try block
ScoreChars(e, str_ref, str_hyp, raises, res) ==
    IF raises THEN e
    ELSE [e EXCEPT !.cer = @ + res.wer,
                   !.sub_char = @ + res.sub,
                   !.ins_char = @ + res.ins,
                   !.del_char = @ + res.del,
                   !.num_chars = @ + Len(RemoveSpaces(str_ref))]

\* the divisions after the loop; a division by a zero total raises
FinishEval(e) ==
    IF WordLevel(e) /\ e.num_words = 0 THEN [e EXCEPT !.pc = "ZeroDivisionError"]
    ELSE IF e.num_chars = 0 THEN [e EXCEPT !.pc = "ZeroDivisionError"]
    ELSE [e EXCEPT
            !.pc = "done",
            !.result =
                [cer |-> Rat(e.cer, e.num_chars),
                 sub_char |-> Rat(e.sub_char, e.num_chars),
                 ins_char |-> Rat(e.ins_char, e.num_chars),
                 del_char |-> Rat(e.del_char, e.num_chars),
                 wer |-> IF WordLevel(e) THEN Rat(e.wer, e.num_words) ELSE Rat(0, 1),
                 sub_word |-> IF WordLevel(e) THEN Rat(e.sub_word, e.num_words)
                              ELSE Rat(0, 1),
                 ins_word |-> IF WordLevel(e) THEN Rat(e.ins_word, e.num_words)
                              ELSE Rat(0, 1),
                 del_word |-> IF WordLevel(e) THEN Rat(e.del_word, e.num_words)
                              ELSE Rat(0, 1)]]

\* ------------------------------------------------------------------------
\* The training loop driving the Controller
\* ------------------------------------------------------------------------
LearningRates == {Rat(1, 2)}
DecayRates == {Rat(1, 2), Rat(2, 3)}
StartEpochs == {1, 2}
PatientEpochs == {0, 1, 2}
BestValues == {2, 10000}
WarmupStartRates == {Rat(0, 1), Rat(1, 10), Rat(1, 1)}
WarmupSteps == {1, 2}
ModelSizes == {1, 2}
OptimizerKinds == {"Adadelta", "SGD"}

\* the constructor arguments the model covers; arguments that a policy does
\* not read are left at one value
Controllers ==
    {Controller(l, "epoch", s, r, 1, TRUE, 10000, 1, Rat(0, 1), 2, Rat(1, 1)) :
        l \in LearningRates, s \in StartEpochs, r \in DecayRates}
    \cup
    UNION {{Controller(l, "metric", s, r, p, lb, b, 1, Rat(0, 1), 2, Rat(1, 1)) :
               l \in LearningRates, s \in {1}, r \in {Rat(1, 2)}} :
           p \in PatientEpochs, lb \in BOOLEAN, b \in BestValues}
    \cup
    UNION {{Controller(l, "warmup", 1, r, 1, TRUE, 10000, m, w, n, Rat(1, 1)) :
               l \in LearningRates, r \in {Rat(1, 2)}, m \in ModelSizes} :
           w \in WarmupStartRates, n \in WarmupSteps}

NoCall == [op |-> "none", epoch |-> 0, value |-> 0, step |-> 0]

NoValue == MaxValue + 1

Obs0 == [ndecays |-> 0,
         \* decay_type = "epoch": the decay_lr calls so far had the epochs
         \* e0, e0 + 1, ..., laste and no warmup_lr call came between
         consec |-> TRUE, e0 |-> -1, laste |-> -1,
         \* decay_type = "metric": the metric values so far were strictly
         \* decreasing (decr), the first one improved on the constructor's
         \* best_value (below)
         decr |-> TRUE, below |-> TRUE, lastv |-> NoValue,
         \* decay_type = "metric": calls at or after the start epoch since
         \* the last improving one, and the decays among them
         flat |-> 0, fdecays |-> 0]

ObsDecay(c, o, rate, epoch, value, r) ==
    LET decayed == r.decayed
        first == obs.e0 = -1
        cons == IF first THEN TRUE ELSE obs.consec /\ epoch = obs.laste + 1
        dec == obs.decr /\ value < obs.lastv
        improved == (IF c.lower_better THEN value ELSE -value) < c.best_value
    IN  [ndecays |-> obs.ndecays + (IF decayed THEN 1 ELSE 0),
         consec |-> IF c.decay_type = "epoch" THEN cons ELSE TRUE,
         e0 |-> IF c.decay_type = "epoch"
                THEN (IF ~cons THEN -2 ELSE IF first THEN epoch ELSE obs.e0)
                ELSE -1,
         laste |-> IF c.decay_type = "epoch" THEN (IF cons THEN epoch ELSE -2)
                   ELSE -1,
         decr |-> IF c.decay_type = "metric" THEN dec ELSE TRUE,
         below |-> IF c.decay_type = "metric"
                   THEN (IF ~dec THEN FALSE
                         ELSE IF obs.lastv = NoValue THEN improved ELSE obs.below)
                   ELSE TRUE,
         lastv |-> IF c.decay_type = "metric" THEN (IF dec THEN value ELSE 0)
                   ELSE NoValue,
         flat |-> IF c.decay_type = "metric" /\ ~BeforeStart(c, epoch)
                  THEN (IF improved THEN 0 ELSE obs.flat + 1)
                  ELSE obs.flat,
         fdecays |-> IF c.decay_type = "metric" /\ ~BeforeStart(c, epoch)
                     THEN (IF improved THEN 0
                           ELSE obs.fdecays + (IF decayed THEN 1 ELSE 0))
                     ELSE obs.fdecays]

\* optimizer, lr = controller.decay_lr(optimizer, lr, epoch, value)
DecayLr ==
    \E epoch \in 0..MaxEpoch, value \in 1..MaxValue :
        LET r == decay_lr(ctl, optimizer, lr, epoch, value)
        IN  /\ r.decayed => obs.ndecays < MaxDecays
            /\ ctl' = r.c
            /\ optimizer' = r.o
            /\ lr' = r.lr
            /\ call' = [op |-> "decay_lr", epoch |-> epoch, value |-> value,
                        step |-> 0, c |-> ctl, o |-> optimizer, lr |-> lr]
            /\ obs' = ObsDecay(ctl, optimizer, lr, epoch, value, r)
            /\ UNCHANGED <<repVars, cerVars>>

\* optimizer, lr = controller.warmup_lr(optimizer, lr, step)
WarmupLr ==
    \E step \in 0..MaxStep :
        LET r == warmup_lr(ctl, optimizer, lr, step)
        IN  /\ ctl' = r.c
            /\ optimizer' = r.o
            /\ lr' = r.lr
            /\ call' = [op |-> "warmup_lr", epoch |-> 0, value |-> 0,
                        step |-> step, c |-> ctl, o |-> optimizer, lr |-> lr]
            /\ obs' = IF ctl.decay_type = "epoch"
                      THEN [obs EXCEPT !.consec = FALSE, !.e0 = -2, !.laste = -2]
                      ELSE obs
            /\ UNCHANGED <<repVars, cerVars>>

NextCtl == DecayLr \/ WarmupLr

\* ------------------------------------------------------------------------
\* The training loop constructing the Controller
\* ------------------------------------------------------------------------
\* the decay types that __init__ or decay_lr compare decay_type with
SupportedDecayTypes == {"epoch", "metric", "warmup"}

\* the decay_type and warmup_nsteps arguments given to the constructor
DecayTypeArgs == SupportedDecayTypes \cup {"always"}
WarmupStepArgs == {-1, 0, 2}

\* the name "controller" before the constructor has returned an object
NoObject == [decay_type |-> "unbound"]

\* "if decay_type == 'warmup': assert warmup_nsteps > 0", the only statement
\* of __init__ that raises
InitRaises(decay_type, warmup_nsteps) ==
    IF decay_type = "warmup" /\ ~(warmup_nsteps > 0) THEN "AssertionError"
    ELSE "none"

\* controller = Controller(learning_rate, decay_type, ...)
New ==
    \E decay_type \in DecayTypeArgs, warmup_nsteps \in WarmupStepArgs,
       decay_patient_epoch \in {0, 1} :
        LET raised == InitRaises(decay_type, warmup_nsteps)
        IN  /\ call.op = "none"
            /\ ctl = NoObject
            /\ ctl' = IF raised = "none"
                       THEN Controller(lr, decay_type, 1, Rat(1, 2),
                                       decay_patient_epoch, TRUE, 10000, 1,
                                       Rat(0, 1), warmup_nsteps, Rat(1, 1))
                       ELSE NoObject
            /\ call' = [op |-> "__init__", epoch |-> 0, value |-> 0, step |-> 0,
                        decay_type |-> decay_type,
                        warmup_nsteps |-> warmup_nsteps,
                        raised |-> raised]
            /\ UNCHANGED <<optimizer, lr, obs, repVars, cerVars>>

\* decay_lr on the object the constructor returned
DecayLrOfNew == ctl # NoObject /\ DecayLr

NextNew == New \/ DecayLrOfNew

\* ------------------------------------------------------------------------
\* Properties of the Controller
\* ------------------------------------------------------------------------
\* the last call was decay_lr on a Controller of the given policy
LastDecay(type) == call.op = "decay_lr" /\ call.c.decay_type = type

\* the sign-adjusted metric value of the last decay_lr call
LastAdjusted == IF call.c.lower_better THEN call.value ELSE -call.value

\* the last decay_lr call improved on the best value it found
LastImproved == LastAdjusted < call.c.best_value

LastAfterStart == call.epoch >= call.c.decay_start_epoch

\* the last call left the rate and every parameter group as they were
LastKeptRate == lr = call.lr /\ optimizer = call.o

\* the field of a parameter group that holds the adapted value
RateField(kind, group) == IF kind = "Adadelta" THEN group.eps ELSE group.lr

\* the decay_lr calls so far were one per epoch, e0, e0 + 1, ..., laste
EpochRun == ctl.decay_type = "epoch" /\ obs.consec /\ obs.e0 >= 0

\* C1 as stated: with decay_type = "epoch" and decay_lr called once per epoch
\* with consecutive epochs starting at or before decay_start_epoch, the rate
\* after the call for epoch decay_start_epoch + N is lr_max * decay_rate^N,
\* and the rate is lr_max while the epoch is before the start epoch.
C1_AsStated ==
    (EpochRun /\ obs.e0 <= ctl.decay_start_epoch) =>
        lr = IF obs.laste < ctl.decay_start_epoch THEN ctl.lr_max
             ELSE Mul(ctl.lr_max,
                      Pow(ctl.decay_rate, obs.laste - ctl.decay_start_epoch))

\* C1 amended: the call for the start epoch itself already decays.  After
\* consecutive calls for the epochs e0..laste the rate is lr_max *
\* decay_rate^K, K the number of those epochs that are >= decay_start_epoch
\* (laste - decay_start_epoch + 1 when e0 <= decay_start_epoch <= laste), and
\* no decay_lr call with an epoch before the start epoch changes the rate or
\* the optimizer.
C1_EpochDecay ==
    /\ EpochRun =>
          lr = Mul(ctl.lr_max,
                   Pow(ctl.decay_rate,
                       Max2(0, obs.laste
                               - Max2(obs.e0, ctl.decay_start_epoch) + 1)))
    /\ (LastDecay("epoch") /\ ~LastAfterStart) => LastKeptRate

C1_Witness ==
    /\ EpochRun
    /\ obs.e0 < ctl.decay_start_epoch
    /\ obs.laste > ctl.decay_start_epoch

\* C2 as stated: with decay_type = "metric" and lower_better, a decay_lr call
\* that continues a strictly decreasing sequence of metric values returns the
\* rate it was given and leaves the optimizer alone, whatever the
\* constructor's best_value and the first metric value are.
C2_AsStated ==
    (LastDecay("metric") /\ call.c.lower_better /\ obs.decr) => LastKeptRate

\* C2 amended: with decay_type = "metric" and lower_better, a strictly
\* decreasing sequence of metric values whose first value is strictly below
\* the constructor's best_value never decays: every call returns the rate it
\* was given, modifies no parameter group and leaves the not-improved counter
\* at 0.
C2_DecreasingNeverDecays ==
    (LastDecay("metric") /\ call.c.lower_better /\ obs.decr /\ obs.below) =>
        /\ LastKeptRate
        /\ ctl.not_improved_epoch = 0
        /\ obs.ndecays = 0

C2_Witness ==
    /\ LastDecay("metric") /\ call.c.lower_better /\ obs.decr /\ obs.below
    /\ LastAfterStart
    /\ call.c.decay_patient_epoch = 0
    /\ call.value = 1
    /\ call.c.best_value = 2

\* C3: with decay_type = "metric", a decay_lr call at or after the start epoch
\* whose metric does not improve counts one more epoch without improvement;
\* when that count exceeds decay_patient_epoch the rate is multiplied by
\* decay_rate once, written to the optimizer, and the counter is reset to 0,
\* otherwise the counter is incremented and the rate kept.  Every other
\* decay_lr call keeps the rate.  Hence a plateau of n such calls has decayed
\* exactly n div (decay_patient_epoch + 1) times.
C3_Plateau ==
    /\ LastDecay("metric") =>
          IF LastAfterStart /\ ~LastImproved
          THEN IF call.c.not_improved_epoch + 1 > call.c.decay_patient_epoch
               THEN /\ lr = Mul(call.lr, call.c.decay_rate)
                    /\ ctl.not_improved_epoch = 0
                    /\ \A i \in DOMAIN optimizer.param_groups :
                          RateField(optimizer.kind, optimizer.param_groups[i]) = lr
               ELSE /\ ctl.not_improved_epoch = call.c.not_improved_epoch + 1
                    /\ LastKeptRate
          ELSE LastKeptRate
    /\ ctl.decay_type = "metric" =>
          /\ obs.fdecays = obs.flat \div (ctl.decay_patient_epoch + 1)
          /\ ctl.not_improved_epoch = obs.flat % (ctl.decay_patient_epoch + 1)

C3_Witness ==
    /\ LastDecay("metric")
    /\ ctl.decay_patient_epoch >= 1
    /\ obs.fdecays = 2
    /\ lr = Mul(call.lr, call.c.decay_rate)

\* C4 as stated: on a metric-policy Controller, after any decay_lr calls, a
\* call whose sign-adjusted metric improves on best_value leaves the
\* not-improved counter at 0 and best_value at the new value.
C4_AsStated ==
    (LastDecay("metric") /\ LastImproved) =>
        ctl.not_improved_epoch = 0 /\ ctl.best_value = LastAdjusted

\* C4 amended: a decay_lr call whose sign-adjusted metric improves on
\* best_value sets best_value to the new value; it resets the not-improved
\* counter to 0 when epoch >= decay_start_epoch and leaves the counter as it
\* was when epoch < decay_start_epoch.
C4_ImprovedResets ==
    (LastDecay("metric") /\ LastImproved) =>
        /\ ctl.best_value = LastAdjusted
        /\ ctl.not_improved_epoch =
              IF LastAfterStart THEN 0 ELSE call.c.not_improved_epoch

C4_Witness ==
    /\ LastDecay("metric") /\ LastImproved /\ LastAfterStart
    /\ call.c.not_improved_epoch > 0

\* C5: on a metric-policy Controller a decay_lr call with epoch <
\* decay_start_epoch returns the rate unchanged, modifies no parameter group
\* and leaves the not-improved counter unchanged; best_value becomes the
\* sign-adjusted value if that is strictly smaller and is unchanged otherwise.
C5_BeforeStartTracksBest ==
    (LastDecay("metric") /\ ~LastAfterStart) =>
        /\ LastKeptRate
        /\ ctl = [call.c EXCEPT !.best_value =
                     IF LastAdjusted < call.c.best_value
                     THEN LastAdjusted ELSE call.c.best_value]

C5_Witness ==
    /\ LastDecay("metric") /\ ~LastAfterStart /\ LastImproved
    /\ call.c.not_improved_epoch > 0

\* C6: starting from a positive rate with decay_rate > 0, after any sequence
\* of decay_lr and warmup_lr calls (step >= 0, both warm-up branches) the
\* returned rate and the rate field of every parameter group are > 0.
C6_RatePositive ==
    /\ Positive(lr)
    /\ \A i \in DOMAIN optimizer.param_groups :
          /\ Positive(optimizer.param_groups[i].lr)
          /\ Positive(optimizer.param_groups[i].eps)

\* C7: whenever decay_lr or warmup_lr changes the rate, every parameter group
\* receives the returned rate: in the eps field, the lr field untouched, for
\* an Adadelta optimizer, in the lr field, eps untouched, for any other.
C7_WrittenToEveryGroup ==
    (call.op # "none" /\ lr # call.lr) =>
        \A i \in DOMAIN optimizer.param_groups :
            IF optimizer.kind = "Adadelta"
            THEN /\ optimizer.param_groups[i].eps = lr
                 /\ optimizer.param_groups[i].lr = call.o.param_groups[i].lr
            ELSE /\ optimizer.param_groups[i].lr = lr
                 /\ optimizer.param_groups[i].eps = call.o.param_groups[i].eps

\* the constructor arguments of the linear warm-up: 0 <
\* warmup_start_learning_rate <= learning_rate and warmup_nsteps > 0
LinearWarmup(c) ==
    /\ Positive(c.warmup_start_lr)
    /\ LeqNonNeg(c.warmup_start_lr, c.lr_max)
    /\ c.warmup_nsteps > 0

\* C12: with 0 < warmup_start_learning_rate <= learning_rate and
\* warmup_nsteps > 0, the rate warmup_lr returns for a step is the start rate
\* at step 0 and the peak learning_rate at step = warmup_nsteps, is not below
\* the rate of any smaller step, and is not above the peak for any step.
C12_LinearRamp ==
    (call.op = "warmup_lr" /\ LinearWarmup(call.c)) =>
        /\ call.step = 0 => lr = call.c.warmup_start_lr
        /\ call.step = call.c.warmup_nsteps => lr = call.c.lr_max
        /\ \A s \in 0..call.step : LeqNonNeg(WarmupRate(call.c, s), lr)
        /\ LeqNonNeg(lr, call.c.lr_max)

\* C11: a construction with an invalid option combination raises and returns
\* no object: decay_type = "warmup" with warmup_nsteps <= 0 is rejected, and so
\* is a decay_type that is none of the supported policies; hence no Controller
\* exists whose decay_type no branch of decay_lr tests for.
C11_InvalidRejected ==
    /\ call.op = "__init__" =>
          ((\/ (call.decay_type = "warmup" /\ call.warmup_nsteps <= 0)
            \/ call.decay_type \notin SupportedDecayTypes)
              => (call.raised # "none" /\ ctl = NoObject))
    /\ ctl # NoObject => ctl.decay_type \in SupportedDecayTypes

\* ------------------------------------------------------------------------
\* The training loop driving the Reporter
\* ------------------------------------------------------------------------
MaxBuf == 2
MaxHist == 1
MaxRepSteps == 3

ObsKeys == {<<"loss", "a">>, <<"acc", "a">>}
ObsValues == {None, <<1>>, <<2>>}

\* observations: dicts of at most two items, in their iteration order; the
\* second item of a dict of two is None or the value 1
Observations ==
    {<<>>}
    \cup {<<[category |-> k[1], name |-> k[2], v |-> v]>> :
             k \in ObsKeys, v \in ObsValues}
    \cup UNION {{<<[category |-> k[1], name |-> k[2], v |-> v],
                    [category |-> j[1], name |-> j[2], v |-> w]>> :
                     j \in ObsKeys \ {k}, v \in ObsValues, w \in {None, <<1>>}} :
                 k \in ObsKeys}

\* a series of a history, empty when the metric is not in it
Series(hist, k) == IF k[2] \in DOMAIN hist[k[1]] THEN hist[k[1]][k[2]] ELSE <<>>

RECURSIVE SumOver(_, _)
SumOver(S, f) == IF S = {} THEN 0
                 ELSE LET x == CHOOSE y \in S : TRUE
                      IN  f[x] + SumOver(S \ {x}, f)

\* the number of values in the local-train buffer
Buffered(r) ==
    SumOver(ObsKeys, [k \in ObsKeys |-> Len(Series(r.obs_train_local, k))])

\* the number of values in the train history
Recorded(r) == SumOver(ObsKeys, [k \in ObsKeys |-> Len(Series(r.obs_train, k))])

\* pending: the is_eval flag of an add of the training loop whose step is
\* still to come ("train", "eval"), "none" between two iterations
Since0 == [buf |-> [k \in ObsKeys |-> <<>>],
           train |-> [k \in ObsKeys |-> <<>>],
           dev |-> [k \in ObsKeys |-> <<>>],
           pending |-> "none"]

\* the observer's account of one add: a training value joins buf; an
\* evaluation value v of a metric with n > 0 buffered values puts their sum
\* divided by n into train and v into dev
RECURSIVE SinceAdd(_, _, _)
SinceAdd(sn, observation, is_eval) ==
    IF observation = <<>> THEN sn
    ELSE LET it == Head(observation)
             k == <<it.category, it.name>>
         IN  IF it.v # None /\ is_eval /\ sn.buf[k] = <<>> THEN sn
             ELSE SinceAdd(
                     IF it.v = None THEN sn
                     ELSE IF ~is_eval
                     THEN [sn EXCEPT !.buf[k] = Append(@, it.v[1])]
                     ELSE [sn EXCEPT
                             !.train[k] = Append(@, Rat(SumSeq(sn.buf[k]),
                                                        Len(sn.buf[k]))),
                             !.dev[k] = Append(@, it.v[1])],
                     Tail(observation), is_eval)

\* reporter.add(observation, is_eval)
Add ==
    \E observation \in Observations, is_eval \in BOOLEAN :
        LET r == ReporterAdd(reporter, observation, is_eval)
        IN  /\ reporter.raised = "none"
            /\ Buffered(r) <= MaxBuf
            /\ Recorded(r) <= MaxHist
            /\ reporter' = r
            /\ since' = SinceAdd(since, observation, is_eval)
            /\ UNCHANGED <<ctlVars, cerVars>>

\* reporter.step(is_eval)
Step ==
    \E is_eval \in BOOLEAN :
        /\ reporter.raised = "none"
        /\ reporter.step < MaxRepSteps
        /\ reporter' = ReporterStep(reporter, is_eval)
        /\ since' = IF is_eval THEN [since EXCEPT !.buf = [k \in ObsKeys |-> <<>>]]
                    ELSE since
        /\ UNCHANGED <<ctlVars, cerVars>>

NextRep == Add \/ Step

\* ------------------------------------------------------------------------
\* The training loop calling the Reporter in pairs:
\* reporter.add(observation, is_eval); reporter.step(is_eval)
\* ------------------------------------------------------------------------
MaxPairs == 4

\* reporter.add(observation, is_eval), the first call of an iteration
LoopAdd ==
    \E observation \in Observations, is_eval \in BOOLEAN :
        LET r == ReporterAdd(reporter, observation, is_eval)
        IN  /\ reporter.raised = "none"
            /\ since.pending = "none"
            /\ reporter.step < MaxPairs
            /\ Buffered(r) <= MaxBuf
            /\ Recorded(r) <= MaxHist
            /\ reporter' = r
            /\ since' = [SinceAdd(since, observation, is_eval) EXCEPT
                            !.pending = IF is_eval THEN "eval" ELSE "train"]
            /\ UNCHANGED <<ctlVars, cerVars>>

\* reporter.step(is_eval) with the flag of the add before it; an add that
\* raised has ended the loop
LoopStep ==
    LET is_eval == since.pending = "eval"
    IN  /\ reporter.raised = "none"
        /\ since.pending # "none"
        /\ reporter' = ReporterStep(reporter, is_eval)
        /\ since' = [since EXCEPT
                        !.buf = IF is_eval THEN [k \in ObsKeys |-> <<>>] ELSE @,
                        !.pending = "none"]
        /\ UNCHANGED <<ctlVars, cerVars>>

NextLoop == LoopAdd \/ LoopStep

\* ------------------------------------------------------------------------
\* One evaluation pass of do_eval_cer
\* ------------------------------------------------------------------------
MaxUtts == 2

ModelTypes == {"ctc", "attention", "hierarchical_attention"}
LabelTypes == {"kanji", "kanji_wb"}

\* (reference, hypothesis) label strings the decoder and the dataset deliver
Corpus ==
    {<< <<>>, <<>> >>,
     << <<"@">>, <<"a">> >>,
     << <<"_">>, <<>> >>,
     << <<"a">>, <<"b", ">", "a">> >>,
     << <<"a", "b">>, <<"b", "a">> >>,
     << <<"a", "_", "_", "b">>, <<"a", "_", "b", "@">> >>,
     << <<"a", "_", "b">>, <<"a">> >>}

NoUCall == [scored |-> FALSE, raised_wer |-> FALSE, raised_cer |-> FALSE,
            str_ref |-> <<>>, before |-> <<>>]

\* one turn of "for b in range(len(batch['xs']))"
ScoreUtterance ==
    \E u \in Corpus, raises_wer \in BOOLEAN, raises_cer \in BOOLEAN :
        LET str_ref == PrepareRef(u[1])
            str_hyp == PrepareHyp(ev, u[2])
        IN  \E rw \in compute_wer(SplitWords(str_ref), SplitWords(str_hyp)),
               rc \in compute_wer(RemoveSpaces(str_ref), RemoveSpaces(str_hyp)) :
                LET e1 == IF WordLevel(ev)
                          THEN ScoreWords(ev, str_ref, str_hyp, raises_wer, rw)
                          ELSE ev
                    e2 == ScoreChars(e1, str_ref, str_hyp, raises_cer, rc)
                IN  /\ ev.pc = "loop"
                    /\ ev.n < MaxUtts
                    /\ ev' = [e2 EXCEPT !.n = @ + 1]
                    /\ ucall' = [scored |-> TRUE,
                                 raised_wer |-> WordLevel(ev) /\ raises_wer,
                                 raised_cer |-> raises_cer,
                                 str_ref |-> str_ref,
                                 before |-> ev]
                    /\ UNCHANGED <<ctlVars, repVars>>

\* "if is_new_epoch: break" and the rest of the function
Finish ==
    /\ ev.pc = "loop"
    /\ ev.n >= 1
    /\ ev' = FinishEval(ev)
    /\ UNCHANGED ucall
    /\ UNCHANGED <<ctlVars, repVars>>

NextCer == ScoreUtterance \/ Finish

\* ------------------------------------------------------------------------
\* Properties of the Reporter and of do_eval_cer
\* ------------------------------------------------------------------------
\* C8: whatever the interleaving of add and step, an evaluation add for a
\* metric with k >= 1 values buffered since the last evaluation step appends
\* the mean of exactly those k values to the metric's train history and the
\* incoming value to its dev history; nothing else is ever appended, and
\* values buffered before the last evaluation step do not contribute.
C8_TrainMean ==
    \A k \in ObsKeys :
        /\ Series(reporter.obs_train, k) = since.train[k]
        /\ Series(reporter.obs_dev, k) = since.dev[k]
        /\ Series(reporter.obs_train_local, k) = since.buf[k]

C8_Witness ==
    \E k \in ObsKeys :
        /\ reporter.raised = "none"
        /\ reporter.steps # <<>>
        /\ since.buf[k] = <<1, 2>>
        /\ Series(reporter.obs_train, k) = <<Rat(3, 2)>>
        /\ Series(reporter.obs_dev, k) = <<2>>

\* C9: do_eval_cer never divides by a zero total: the pass ends without a
\* ZeroDivisionError, and a granularity whose total reference length is zero
\* is reported with rate 0.
C9_ZeroLengthGuarded ==
    /\ ev.pc # "ZeroDivisionError"
    /\ ev.pc = "done" =>
          /\ ev.num_chars = 0 => ev.result.cer = Rat(0, 1)
          /\ ev.num_words = 0 => ev.result.wer = Rat(0, 1)

\* C13: after any sequence of add/step pairs, observations with None values
\* and metrics first seen at a later evaluation included, every metric present
\* in the train history has a train series and a dev series of the length of
\* the step history, and the step history is strictly increasing.
C13_SeriesAligned ==
    (since.pending = "none" /\ reporter.raised = "none") =>
        /\ \A k \in ObsKeys :
              k[2] \in DOMAIN reporter.obs_train[k[1]] =>
                  /\ Len(Series(reporter.obs_train, k)) = Len(reporter.steps)
                  /\ Len(Series(reporter.obs_dev, k)) = Len(reporter.steps)
        /\ \A i \in 1..(Len(reporter.steps) - 1) :
              reporter.steps[i] < reporter.steps[i + 1]

CharTotals(e) == <<e.cer, e.sub_char, e.ins_char, e.del_char, e.num_chars>>

WordTotals(e) == <<e.wer, e.sub_word, e.ins_word, e.del_word, e.num_words>>

\* C10: when the scoring of an utterance at one granularity raises, the loop
\* goes on (the utterance is counted and the other granularity is scored) and
\* the five totals of that granularity are all as before; when it does not
\* raise, the reference length and the edit totals are updated together, the
\* edit total by the sum of the three edit counts.
C10_SkippedUtterance ==
    ucall.scored =>
        /\ ev.n = ucall.before.n + 1
        /\ IF ucall.raised_cer
           THEN CharTotals(ev) = CharTotals(ucall.before)
           ELSE /\ ev.num_chars = ucall.before.num_chars
                                   + Len(RemoveSpaces(ucall.str_ref))
                /\ ev.cer - ucall.before.cer =
                      (ev.sub_char - ucall.before.sub_char)
                      + (ev.ins_char - ucall.before.ins_char)
                      + (ev.del_char - ucall.before.del_char)
        /\ IF ucall.raised_wer \/ ~WordLevel(ev)
           THEN WordTotals(ev) = WordTotals(ucall.before)
           ELSE /\ ev.num_words = ucall.before.num_words
                                   + Len(SplitWords(ucall.str_ref))
                /\ ev.wer - ucall.before.wer =
                      (ev.sub_word - ucall.before.sub_word)
                      + (ev.ins_word - ucall.before.ins_word)
                      + (ev.del_word - ucall.before.del_word)

C10_Witness ==
    /\ ucall.scored /\ ucall.raised_cer /\ ~ucall.raised_wer
    /\ WordLevel(ev)
    /\ ev.pc = "loop"
    /\ ucall.before.num_chars > 0
    /\ ucall.str_ref = <<"a", "_", "b">>
    /\ ev.wer > ucall.before.wer

\* ------------------------------------------------------------------------
\* Specifications: one per component, the others stay as constructed
\* ------------------------------------------------------------------------
\* the Controller, optimizer and evaluation pass of the specifications that
\* do not drive them
IdleController ==
    Controller(Rat(1, 2), "epoch", 1, Rat(1, 2), 1, TRUE, 10000, 1, Rat(0, 1), 2, Rat(1, 1))

IdleEval == StartEval("ctc", "kanji", "kanji")

InitCtl ==
    /\ ctl \in Controllers
    /\ \E k \in OptimizerKinds : optimizer = Optimizer(k, ctl.lr_max)
    /\ lr = ctl.lr_max
    /\ call = NoCall
    /\ obs = Obs0
    /\ reporter = Reporter
    /\ since = Since0
    /\ ev = IdleEval
    /\ ucall = NoUCall

InitRep ==
    /\ ctl = IdleController
    /\ optimizer = Optimizer("SGD", IdleController.lr_max)
    /\ lr = IdleController.lr_max
    /\ call = NoCall
    /\ obs = Obs0
    /\ reporter = Reporter
    /\ since = Since0
    /\ ev = IdleEval
    /\ ucall = NoUCall

InitCer ==
    /\ ctl = IdleController
    /\ optimizer = Optimizer("SGD", IdleController.lr_max)
    /\ lr = IdleController.lr_max
    /\ call = NoCall
    /\ obs = Obs0
    /\ reporter = Reporter
    /\ since = Since0
    /\ \E m \in ModelTypes, l \in LabelTypes, ls \in LabelTypes :
          ev = StartEval(m, l, ls)
    /\ ucall = NoUCall

InitNew ==
    /\ ctl = NoObject
    /\ \E k \in OptimizerKinds : optimizer = Optimizer(k, Rat(1, 2))
    /\ lr = Rat(1, 2)
    /\ call = NoCall
    /\ obs = Obs0
    /\ reporter = Reporter
    /\ since = Since0
    /\ ev = IdleEval
    /\ ucall = NoUCall

InitLoop ==
    /\ ctl = IdleController
    /\ optimizer = Optimizer("SGD", IdleController.lr_max)
    /\ lr = IdleController.lr_max
    /\ call = NoCall
    /\ obs = Obs0
    /\ reporter = Reporter
    /\ since = Since0
    /\ ev = IdleEval
    /\ ucall = NoUCall

SpecCtl == InitCtl /\ [][NextCtl]_vars

SpecRep == InitRep /\ [][NextRep]_vars

SpecCer == InitCer /\ [][NextCer]_vars

SpecNew == InitNew /\ [][NextNew]_vars

SpecLoop == InitLoop /\ [][NextLoop]_vars

====
